---- MODULE Spec2Model ----
(***************************************************************************)
(* A model of PackageDev's sublime_lib OutputPanel wrapper                 *)
(* (Lib/sublime_lib/view/output_view.py) over a host window, and of the    *)
(* scope naming table (scope_data/data.py).                                *)
(*                                                                         *)
(* Python's optional values are modelled as sequences of length <= 1:      *)
(* None (and an attribute that was never assigned) is <<>>, a value v is   *)
(* <<v>>.  The empty string "" is therefore <<"">>, different from None.   *)
(***************************************************************************)
EXTENDS Integers, Sequences, FiniteSets, TLC

VARIABLES
    objs,        \* the OutputPanel instances: their attributes
    panels,      \* host: the output panels of every window, by (window, name)
    calls,       \* host API calls made by the operation that ran last, in order
    last,        \* the operation that ran last: its name, instance and arguments
    given,       \* per instance: the last non-None path/file_regex/line_regex passed
    base,        \* per (window, name): the panel's content in the initial state
    hist,        \* per (window, name): the write/write_line calls since the last clear
    cleared,     \* per (window, name): "never", or whether the last clear() erased
                 \* "text" or found the buffer "empty"
    hostClears,  \* whether this host clears a panel's settings when it is fetched
    scope        \* the reading of the scope table: lines read, nodes found

vars == <<objs, panels, calls, last, given, base, hist, cleared, hostClears, scope>>

----------------------------------------------------------------------------
(* Inputs *)

Windows == {"w1", "w2"}
\* The settings of a panel do not depend on its window: one window is explored.
SettingsWindows == {"w1"}
PanelNames == {"exec", "lint"}
Instances == {"o1", "o2"}
RegexValues == {"", "r"}
PathValues == {"", "/d"}
Texts == {"", "a", "b\n"}
InitialContents == {"", "x"}

\* How many write/write_line calls are recorded at a time, over all panels
\* (a clear() forgets those of its panel).
MaxWrites == 2

None == <<>>
Some(v) == <<v>>
Opt(S) == {None} \cup {Some(v) : v \in S}

Keys == {"result_base_dir", "result_file_regex", "result_line_regex"}
ViewIds == Windows \X PanelNames

----------------------------------------------------------------------------
(* The host: window.get_output_panel, view.settings().set,                 *)
(* window.run_command.  A machine state m is [objs, panels, calls].        *)

NoSettings == [k \in Keys |-> None]

NoPanel == [exists |-> FALSE, buffer |-> "", settings |-> NoSettings,
            picked |-> NoSettings]

\* The view handle the host returns for a panel of a window.
ViewOf(window, panel_name) == <<window, panel_name>>

\* window.get_output_panel(name): get or create the panel.  The host reads
\* the result_* settings the panel has at this moment (it is "picked up as
\* a result buffer"); a clearing host then resets the panel's settings.
get_output_panel(m, window, panel_name) ==
    LET v == ViewOf(window, panel_name)
        p == m.panels[v]
    IN [m EXCEPT
          !.panels[v] = [exists   |-> TRUE,
                         buffer   |-> p.buffer,
                         settings |-> IF hostClears THEN NoSettings
                                      ELSE p.settings,
                         picked   |-> p.settings],
          !.calls = Append(@, <<"get_output_panel", window, panel_name>>)]

\* view.settings().set(key, value)
settings_set(m, view, key, value) ==
    [m EXCEPT !.panels[view].settings[key] = Some(value),
              !.calls = Append(@, <<"settings.set", view[1], view[2], key, value>>)]

\* window.run_command(command, {"panel": panel})
run_command(m, window, command, panel) ==
    [m EXCEPT !.calls = Append(@, <<"run_command", window, command, panel>>)]

\* sublime_lib.view.append(view, text): insert text at the end of the buffer.
append(m, view, text) ==
    [m EXCEPT !.panels[view].buffer = @ \o text,
              !.calls = Append(@, <<"append", view[1], view[2], text>>)]

\* sublime_lib.view.clear(view): erase the whole buffer.
clear_view(m, view) ==
    [m EXCEPT !.panels[view].buffer = "",
              !.calls = Append(@, <<"clear", view[1], view[2]>>)]

----------------------------------------------------------------------------
(* scope_data/data.py: DATA, a text of one label per line, nested by        *)
(* indentation.  It is kept as its lines (DATA.split("\n")), each line as   *)
(* the sequence of its characters.                                          *)

DATA_LINES ==
    <<
    <<>>,
    <<" "," "," "," ","c","o","m","m","e","n","t">>,
    <<" "," "," "," "," "," "," "," ","l","i","n","e">>,
    <<" "," "," "," "," "," "," "," "," "," "," "," ","d","o","u","b","l","e","-","s","l","a","s","h">>,
    <<" "," "," "," "," "," "," "," "," "," "," "," ","d","o","u","b","l","e","-","d","a","s","h">>,
    <<" "," "," "," "," "," "," "," "," "," "," "," ","n","u","m","b","e","r","-","s","i","g","n">>,
    <<" "," "," "," "," "," "," "," "," "," "," "," ","p","e","r","c","e","n","t","a","g","e">>,
    <<" "," "," "," "," "," "," "," ","b","l","o","c","k">>,
    <<" "," "," "," "," "," "," "," "," "," "," "," ","d","o","c","u","m","e","n","t","a","t","i","o","n">>,
    <<>>,
    <<" "," "," "," ","c","o","n","s","t","a","n","t">>,
    <<" "," "," "," "," "," "," "," ","n","u","m","e","r","i","c">>,
    <<" "," "," "," "," "," "," "," "," "," "," "," ","i","n","t","e","g","e","r">>,
    <<" "," "," "," "," "," "," "," "," "," "," "," ","f","l","o","a","t">>,
    <<" "," "," "," "," "," "," "," "," "," "," "," ","h","e","x">>,
    <<" "," "," "," "," "," "," "," "," "," "," "," ","o","c","t","a","l">>,
    <<" "," "," "," "," "," "," "," "," "," "," "," ","c","o","m","p","l","e","x">>,
    <<" "," "," "," "," "," "," "," ","c","h","a","r","a","c","t","e","r">>,
    <<" "," "," "," "," "," "," "," "," "," "," "," ","e","s","c","a","p","e">>,
    <<" "," "," "," "," "," "," "," ","l","a","n","g","u","a","g","e">>,
    <<" "," "," "," "," "," "," "," ","o","t","h","e","r">>,
    <<" "," "," "," "," "," "," "," "," "," "," "," ","p","l","a","c","e","h","o","l","d","e","r">>,
    <<>>,
    <<" "," "," "," ","e","n","t","i","t","y">>,
    <<" "," "," "," "," "," "," "," ","n","a","m","e">>,
    <<" "," "," "," "," "," "," "," "," "," "," "," ","c","l","a","s","s">>,
    <<" "," "," "," "," "," "," "," "," "," "," "," "," "," "," "," ","f","o","r","w","a","r","d","-","d","e","c","l">>,
    <<" "," "," "," "," "," "," "," "," "," "," "," ","s","t","r","u","c","t">>,
    <<" "," "," "," "," "," "," "," "," "," "," "," ","e","n","u","m">>,
    <<" "," "," "," "," "," "," "," "," "," "," "," ","u","n","i","o","n">>,
    <<" "," "," "," "," "," "," "," "," "," "," "," ","t","r","a","i","t">>,
    <<" "," "," "," "," "," "," "," "," "," "," "," ","i","n","t","e","r","f","a","c","e">>,
    <<" "," "," "," "," "," "," "," "," "," "," "," ","t","y","p","e">>,
    <<" "," "," "," "," "," "," "," "," "," "," "," ","f","u","n","c","t","i","o","n">>,
    <<" "," "," "," "," "," "," "," "," "," "," "," "," "," "," "," ","c","o","n","s","t","r","u","c","t","o","r">>,
    <<" "," "," "," "," "," "," "," "," "," "," "," "," "," "," "," ","d","e","s","t","r","u","c","t","o","r">>,
    <<" "," "," "," "," "," "," "," "," "," "," "," ","n","a","m","e","s","p","a","c","e">>,
    <<" "," "," "," "," "," "," "," "," "," "," "," ","c","o","n","s","t","a","n","t">>,
    <<" "," "," "," "," "," "," "," "," "," "," "," ","l","a","b","e","l">>,
    <<" "," "," "," "," "," "," "," "," "," "," "," ","s","e","c","t","i","o","n">>,
    <<" "," "," "," "," "," "," "," "," "," "," "," ","t","a","g">>,
    <<" "," "," "," "," "," "," "," ","o","t","h","e","r">>,
    <<" "," "," "," "," "," "," "," "," "," "," "," ","i","n","h","e","r","i","t","e","d","-","c","l","a","s","s">>,
    <<" "," "," "," "," "," "," "," "," "," "," "," ","a","t","t","r","i","b","u","t","e","-","n","a","m","e">>,
    <<>>,
    <<" "," "," "," ","i","n","v","a","l","i","d">>,
    <<" "," "," "," "," "," "," "," ","i","l","l","e","g","a","l">>,
    <<" "," "," "," "," "," "," "," ","d","e","p","r","e","c","a","t","e","d">>,
    <<>>,
    <<" "," "," "," ","k","e","y","w","o","r","d">>,
    <<" "," "," "," "," "," "," "," ","c","o","n","t","r","o","l">>,
    <<" "," "," "," "," "," "," "," "," "," "," "," ","c","o","n","d","i","t","i","o","n","a","l">>,
    <<" "," "," "," "," "," "," "," "," "," "," "," ","i","m","p","o","r","t">>,
    <<" "," "," "," "," "," "," "," ","o","p","e","r","a","t","o","r">>,
    <<" "," "," "," "," "," "," "," "," "," "," "," ","a","s","s","i","g","n","m","e","n","t">>,
    <<" "," "," "," "," "," "," "," "," "," "," "," ","a","r","i","t","h","m","e","t","i","c">>,
    <<" "," "," "," "," "," "," "," "," "," "," "," ","b","i","t","w","i","s","e">>,
    <<" "," "," "," "," "," "," "," "," "," "," "," ","l","o","g","i","c","a","l">>,
    <<" "," "," "," "," "," "," "," "," "," "," "," ","w","o","r","d">>,
    <<" "," "," "," "," "," "," "," ","o","t","h","e","r">>,
    <<>>,
    <<" "," "," "," ","m","a","r","k","u","p">>,
    <<" "," "," "," "," "," "," "," ","h","e","a","d","i","n","g">>,
    <<" "," "," "," "," "," "," "," ","l","i","s","t">>,
    <<" "," "," "," "," "," "," "," "," "," "," "," ","n","u","m","b","e","r","e","d">>,
    <<" "," "," "," "," "," "," "," "," "," "," "," ","u","n","n","u","m","b","e","r","e","d">>,
    <<" "," "," "," "," "," "," "," ","b","o","l","d">>,
    <<" "," "," "," "," "," "," "," ","i","t","a","l","i","c">>,
    <<" "," "," "," "," "," "," "," ","u","n","d","e","r","l","i","n","e">>,
    <<" "," "," "," "," "," "," "," "," "," "," "," ","l","i","n","k">>,
    <<" "," "," "," "," "," "," "," ","i","n","s","e","r","t","e","d">>,
    <<" "," "," "," "," "," "," "," ","d","e","l","e","t","e","d">>,
    <<" "," "," "," "," "," "," "," ","q","u","o","t","e">>,
    <<" "," "," "," "," "," "," "," ","r","a","w">>,
    <<" "," "," "," "," "," "," "," "," "," "," "," ","i","n","l","i","n","e">>,
    <<" "," "," "," "," "," "," "," "," "," "," "," ","b","l","o","c","k">>,
    <<" "," "," "," "," "," "," "," ","o","t","h","e","r">>,
    <<>>,
    <<" "," "," "," ","m","e","t","a">>,
    <<" "," "," "," "," "," "," "," ","c","l","a","s","s">>,
    <<" "," "," "," "," "," "," "," ","s","t","r","u","c","t">>,
    <<" "," "," "," "," "," "," "," ","e","n","u","m">>,
    <<" "," "," "," "," "," "," "," ","u","n","i","o","n">>,
    <<" "," "," "," "," "," "," "," ","t","r","a","i","t">>,
    <<" "," "," "," "," "," "," "," ","i","n","t","e","r","f","a","c","e">>,
    <<" "," "," "," "," "," "," "," ","t","y","p","e">>,
    <<" "," "," "," "," "," "," "," ","f","u","n","c","t","i","o","n">>,
    <<" "," "," "," "," "," "," "," "," "," "," "," ","p","a","r","a","m","e","t","e","r","s">>,
    <<" "," "," "," "," "," "," "," "," "," "," "," ","r","e","t","u","r","n","-","t","y","p","e">>,
    <<" "," "," "," "," "," "," "," ","n","a","m","e","s","p","a","c","e">>,
    <<" "," "," "," "," "," "," "," ","p","r","e","p","r","o","c","e","s","s","o","r">>,
    <<" "," "," "," "," "," "," "," ","p","a","t","h">>,
    <<" "," "," "," "," "," "," "," ","f","u","n","c","t","i","o","n","-","c","a","l","l">>,
    <<" "," "," "," "," "," "," "," ","b","l","o","c","k">>,
    <<" "," "," "," "," "," "," "," ","b","r","a","c","e","s">>,
    <<" "," "," "," "," "," "," "," ","g","r","o","u","p">>,
    <<" "," "," "," "," "," "," "," ","p","a","r","e","n","s">>,
    <<" "," "," "," "," "," "," "," ","b","r","a","c","k","e","t","s">>,
    <<" "," "," "," "," "," "," "," ","g","e","n","e","r","i","c">>,
    <<" "," "," "," "," "," "," "," ","t","a","g">>,
    <<" "," "," "," "," "," "," "," ","p","a","r","a","g","r","a","p","h">>,
    <<" "," "," "," "," "," "," "," ","t","o","c","-","l","i","s","t">>,
    <<" "," "," "," "," "," "," "," ","s","e","q","u","e","n","c","e">>,
    <<" "," "," "," "," "," "," "," ","m","a","p","p","i","n","g">>,
    <<" "," "," "," "," "," "," "," "," "," "," "," ","k","e","y">>,
    <<" "," "," "," "," "," "," "," "," "," "," "," ","v","a","l","u","e">>,
    <<" "," "," "," "," "," "," "," ","a","n","n","o","t","a","t","i","o","n">>,
    <<" "," "," "," "," "," "," "," ","s","e","t">>,
    <<>>,
    <<" "," "," "," ","p","u","n","c","t","u","a","t","i","o","n">>,
    <<" "," "," "," "," "," "," "," ","d","e","f","i","n","i","t","i","o","n">>,
    <<" "," "," "," "," "," "," "," "," "," "," "," ","s","t","r","i","n","g">>,
    <<" "," "," "," "," "," "," "," "," "," "," "," "," "," "," "," ","b","e","g","i","n">>,
    <<" "," "," "," "," "," "," "," "," "," "," "," "," "," "," "," ","e","n","d">>,
    <<" "," "," "," "," "," "," "," "," "," "," "," ","c","o","m","m","e","n","t">>,
    <<" "," "," "," "," "," "," "," "," "," "," "," "," "," "," "," ","b","e","g","i","n">>,
    <<" "," "," "," "," "," "," "," "," "," "," "," "," "," "," "," ","e","n","d">>,
    <<" "," "," "," "," "," "," "," "," "," "," "," ","k","e","y","w","o","r","d">>,
    <<" "," "," "," "," "," "," "," "," "," "," "," ","g","e","n","e","r","i","c">>,
    <<" "," "," "," "," "," "," "," "," "," "," "," "," "," "," "," ","b","e","g","i","n">>,
    <<" "," "," "," "," "," "," "," "," "," "," "," "," "," "," "," ","e","n","d">>,
    <<" "," "," "," "," "," "," "," "," "," "," "," ","p","l","a","c","e","h","o","l","d","e","r">>,
    <<" "," "," "," "," "," "," "," "," "," "," "," "," "," "," "," ","b","e","g","i","n">>,
    <<" "," "," "," "," "," "," "," "," "," "," "," "," "," "," "," ","e","n","d">>,
    <<" "," "," "," "," "," "," "," ","s","e","c","t","i","o","n">>,
    <<" "," "," "," "," "," "," "," "," "," "," "," ","b","l","o","c","k">>,
    <<" "," "," "," "," "," "," "," "," "," "," "," "," "," "," "," ","b","e","g","i","n">>,
    <<" "," "," "," "," "," "," "," "," "," "," "," "," "," "," "," ","e","n","d">>,
    <<" "," "," "," "," "," "," "," "," "," "," "," ","b","r","a","c","e","s">>,
    <<" "," "," "," "," "," "," "," "," "," "," "," "," "," "," "," ","b","e","g","i","n">>,
    <<" "," "," "," "," "," "," "," "," "," "," "," "," "," "," "," ","e","n","d">>,
    <<" "," "," "," "," "," "," "," "," "," "," "," ","g","r","o","u","p">>,
    <<" "," "," "," "," "," "," "," "," "," "," "," "," "," "," "," ","b","e","g","i","n">>,
    <<" "," "," "," "," "," "," "," "," "," "," "," "," "," "," "," ","e","n","d">>,
    <<" "," "," "," "," "," "," "," "," "," "," "," ","p","a","r","e","n","s">>,
    <<" "," "," "," "," "," "," "," "," "," "," "," "," "," "," "," ","b","e","g","i","n">>,
    <<" "," "," "," "," "," "," "," "," "," "," "," "," "," "," "," ","e","n","d">>,
    <<" "," "," "," "," "," "," "," "," "," "," "," ","b","r","a","c","k","e","t","s">>,
    <<" "," "," "," "," "," "," "," "," "," "," "," "," "," "," "," ","b","e","g","i","n">>,
    <<" "," "," "," "," "," "," "," "," "," "," "," "," "," "," "," ","e","n","d">>,
    <<" "," "," "," "," "," "," "," "," "," "," "," ","s","e","q","u","e","n","c","e">>,
    <<" "," "," "," "," "," "," "," "," "," "," "," "," "," "," "," ","b","e","g","i","n">>,
    <<" "," "," "," "," "," "," "," "," "," "," "," "," "," "," "," ","e","n","d">>,
    <<" "," "," "," "," "," "," "," "," "," "," "," ","m","a","p","p","i","n","g">>,
    <<" "," "," "," "," "," "," "," "," "," "," "," "," "," "," "," ","b","e","g","i","n">>,
    <<" "," "," "," "," "," "," "," "," "," "," "," "," "," "," "," ","e","n","d">>,
    <<" "," "," "," "," "," "," "," "," "," "," "," ","s","e","t">>,
    <<" "," "," "," "," "," "," "," "," "," "," "," "," "," "," "," ","b","e","g","i","n">>,
    <<" "," "," "," "," "," "," "," "," "," "," "," "," "," "," "," ","e","n","d">>,
    <<" "," "," "," "," "," "," "," ","s","e","p","a","r","a","t","o","r">>,
    <<" "," "," "," "," "," "," "," "," "," "," "," ","s","e","q","u","e","n","c","e">>,
    <<" "," "," "," "," "," "," "," "," "," "," "," ","m","a","p","p","i","n","g">>,
    <<" "," "," "," "," "," "," "," "," "," "," "," "," "," "," "," ","k","e","y","-","v","a","l","u","e">>,
    <<" "," "," "," "," "," "," "," "," "," "," "," "," "," "," "," ","p","a","i","r">>,
    <<" "," "," "," "," "," "," "," "," "," "," "," ","d","e","c","i","m","a","l">>,
    <<" "," "," "," "," "," "," "," ","t","e","r","m","i","n","a","t","o","r">>,
    <<" "," "," "," "," "," "," "," ","a","c","c","e","s","s","o","r">>,
    <<" "," "," "," "," "," "," "," "," "," "," "," ","a","r","r","o","w">>,
    <<" "," "," "," "," "," "," "," "," "," "," "," ","d","o","t">>,
    <<" "," "," "," "," "," "," "," "," "," "," "," ","d","o","u","b","l","e","-","c","o","l","o","n">>,
    <<" "," "," "," "," "," "," "," "," "," "," "," ","f","a","t","-","a","r","r","o","w">>,
    <<" "," "," "," "," "," "," "," "," "," "," "," ","c","o","l","o","n">>,
    <<" "," "," "," "," "," "," "," "," "," "," "," ","b","a","c","k","s","l","a","s","h">>,
    <<>>,
    <<" "," "," "," ","s","t","o","r","a","g","e">>,
    <<" "," "," "," "," "," "," "," ","t","y","p","e">>,
    <<" "," "," "," "," "," "," "," ","m","o","d","i","f","i","e","r">>,
    <<>>,
    <<" "," "," "," ","s","t","r","i","n","g">>,
    <<" "," "," "," "," "," "," "," ","q","u","o","t","e","d">>,
    <<" "," "," "," "," "," "," "," "," "," "," "," ","s","i","n","g","l","e">>,
    <<" "," "," "," "," "," "," "," "," "," "," "," ","d","o","u","b","l","e">>,
    <<" "," "," "," "," "," "," "," "," "," "," "," ","t","r","i","p","l","e">>,
    <<" "," "," "," "," "," "," "," "," "," "," "," ","o","t","h","e","r">>,
    <<" "," "," "," "," "," "," "," ","u","n","q","u","o","t","e","d">>,
    <<" "," "," "," "," "," "," "," ","r","e","g","e","x","p">>,
    <<" "," "," "," "," "," "," "," ","i","n","t","e","r","p","o","l","a","t","e","d">>,
    <<" "," "," "," "," "," "," "," ","o","t","h","e","r">>,
    <<>>,
    <<" "," "," "," ","s","u","p","p","o","r","t">>,
    <<" "," "," "," "," "," "," "," ","c","o","n","s","t","a","n","t">>,
    <<" "," "," "," "," "," "," "," ","f","u","n","c","t","i","o","n">>,
    <<" "," "," "," "," "," "," "," ","m","o","d","u","l","e">>,
    <<" "," "," "," "," "," "," "," ","t","y","p","e">>,
    <<" "," "," "," "," "," "," "," ","c","l","a","s","s">>,
    <<" "," "," "," "," "," "," "," ","o","t","h","e","r">>,
    <<>>,
    <<" "," "," "," ","v","a","r","i","a","b","l","e">>,
    <<" "," "," "," "," "," "," "," ","l","a","n","g","u","a","g","e">>,
    <<" "," "," "," "," "," "," "," ","p","a","r","a","m","e","t","e","r">>,
    <<" "," "," "," "," "," "," "," ","f","u","n","c","t","i","o","n">>,
    <<" "," "," "," "," "," "," "," ","a","n","n","o","t","a","t","i","o","n">>,
    <<" "," "," "," "," "," "," "," ","o","t","h","e","r">>,
    <<" "," "," "," "," "," "," "," "," "," "," "," ","c","o","n","s","t","a","n","t">>,
    <<" "," "," "," "," "," "," "," "," "," "," "," ","m","e","m","b","e","r">>,
    <<>>
    >>

\* Mutant: the last entry of the table is entered twice.
DATA_repeated_entry == Append(DATA_LINES, DATA_LINES[Len(DATA_LINES) - 1])

DATA == DATA_LINES

\* One nesting level of the table is four spaces.
IndentWidth == 4

LowerCase == {"a","b","c","d","e","f","g","h","i","j","k","l","m",
              "n","o","p","q","r","s","t","u","v","w","x","y","z"}

\* The number of leading spaces of a line.
RECURSIVE Indent(_)
Indent(line) ==
    IF line = <<>> \/ Head(line) # " " THEN 0 ELSE 1 + Indent(Tail(line))

IsBlank(line) == Indent(line) = Len(line)

Label(line) == SubSeq(line, Indent(line) + 1, Len(line))

Depth(line) == Indent(line) \div IndentWidth

\* Lowercase tokens separated by single hyphens.
WellFormed(label) ==
    /\ label # <<>>
    /\ \A i \in 1..Len(label) : label[i] \in LowerCase \cup {"-"}
    /\ label[1] # "-" /\ label[Len(label)] # "-"
    /\ \A i \in 1..(Len(label) - 1) : ~(label[i] = "-" /\ label[i + 1] = "-")

\* The labels of a path joined by dots.
RECURSIVE Join(_)
Join(path) ==
    IF Len(path) = 1 THEN Head(path)
    ELSE Head(path) \o <<".">> \o Join(Tail(path))

\* The depth of the first entry after line i, 0 if there is none.
RECURSIVE NextDepth(_)
NextDepth(i) ==
    IF i >= Len(DATA) THEN 0
    ELSE IF IsBlank(DATA[i + 1]) THEN NextDepth(i + 1)
    ELSE Depth(DATA[i + 1])

\* The entry on line i has no entry nested under it.
IsLeaf(i) == NextDepth(i) <= Depth(DATA[i])

ScopeStart ==
    [pos |-> 0, stack |-> <<>>, nodes |-> {}, leaves |-> {},
     nodeLines |-> 0, leafLines |-> 0, labels |-> {}]

\* Read the next line of DATA: a blank line is skipped; an entry becomes a
\* child of the last entry one level up, and its dot-joined path is noted.
ReadLine ==
    /\ scope.pos < Len(DATA)
    /\ LET i == scope.pos + 1
           line == DATA[i]
           d == Depth(line)
           path == SubSeq(scope.stack, 1, d - 1) \o <<Label(line)>>
       IN \/ /\ IsBlank(line)
             /\ scope' = [scope EXCEPT !.pos = i]
          \/ /\ ~IsBlank(line)
             /\ scope' = [pos |-> i,
                          stack |-> path,
                          nodes |-> scope.nodes \cup {Join(path)},
                          leaves |-> IF IsLeaf(i)
                                     THEN scope.leaves \cup {Join(path)}
                                     ELSE scope.leaves,
                          nodeLines |-> scope.nodeLines + 1,
                          leafLines |-> IF IsLeaf(i) THEN scope.leafLines + 1
                                        ELSE scope.leafLines,
                          labels |-> scope.labels \cup {Label(line)}]
    /\ UNCHANGED <<objs, panels, calls, last, given, base, hist, cleared, hostClears>>

----------------------------------------------------------------------------
(* class OutputPanel *)

NoInstance == [constructed |-> FALSE, window |-> "", panel_name |-> "",
               view |-> <<>>, file_regex |-> None, line_regex |-> None]

\* Mutant: a regex is written only by the call that passes it.
set_regex_no_repush(m, self, file_regex, line_regex) ==
    LET m1 == IF file_regex # None
              THEN settings_set([m EXCEPT !.objs[self].file_regex = file_regex],
                                m.objs[self].view, "result_file_regex", file_regex[1])
              ELSE m
        m2 == IF line_regex # None
              THEN settings_set([m1 EXCEPT !.objs[self].line_regex = line_regex],
                                m1.objs[self].view, "result_line_regex", line_regex[1])
              ELSE m1
    IN get_output_panel(m2, m2.objs[self].window, m2.objs[self].panel_name)

\* Mutant: getattr(self, 'file_regex', "") instead of the hasattr test.
set_regex_default_write(m, self, file_regex, line_regex) ==
    LET m1 == IF file_regex # None
              THEN [m EXCEPT !.objs[self].file_regex = file_regex]
              ELSE m
        m2 == settings_set(m1, m1.objs[self].view, "result_file_regex",
                           IF m1.objs[self].file_regex # None
                           THEN m1.objs[self].file_regex[1] ELSE "")
        m3 == IF line_regex # None
              THEN [m2 EXCEPT !.objs[self].line_regex = line_regex]
              ELSE m2
        m4 == settings_set(m3, m3.objs[self].view, "result_line_regex",
                           IF m3.objs[self].line_regex # None
                           THEN m3.objs[self].line_regex[1] ELSE "")
    IN get_output_panel(m4, m4.objs[self].window, m4.objs[self].panel_name)

\* Mutant: "if file_regex:" instead of "if file_regex is not None:".
set_regex_truthy(m, self, file_regex, line_regex) ==
    LET m1 == IF file_regex # None /\ file_regex # Some("")
              THEN [m EXCEPT !.objs[self].file_regex = file_regex]
              ELSE m
        m2 == IF m1.objs[self].file_regex # None
              THEN settings_set(m1, m1.objs[self].view, "result_file_regex",
                                m1.objs[self].file_regex[1])
              ELSE m1
        m3 == IF line_regex # None /\ line_regex # Some("")
              THEN [m2 EXCEPT !.objs[self].line_regex = line_regex]
              ELSE m2
        m4 == IF m3.objs[self].line_regex # None
              THEN settings_set(m3, m3.objs[self].view, "result_line_regex",
                                m3.objs[self].line_regex[1])
              ELSE m3
    IN get_output_panel(m4, m4.objs[self].window, m4.objs[self].panel_name)

\* def set_regex(self, file_regex=None, line_regex=None)
set_regex(m, self, file_regex, line_regex) ==
    LET m1 == IF file_regex # None
              THEN [m EXCEPT !.objs[self].file_regex = file_regex]
              ELSE m
        m2 == IF m1.objs[self].file_regex # None      \* hasattr(self, 'file_regex')
              THEN settings_set(m1, m1.objs[self].view, "result_file_regex",
                                m1.objs[self].file_regex[1])
              ELSE m1
        m3 == IF line_regex # None
              THEN [m2 EXCEPT !.objs[self].line_regex = line_regex]
              ELSE m2
        m4 == IF m3.objs[self].line_regex # None      \* hasattr(self, 'line_regex')
              THEN settings_set(m3, m3.objs[self].view, "result_line_regex",
                                m3.objs[self].line_regex[1])
              ELSE m3
    IN get_output_panel(m4, m4.objs[self].window, m4.objs[self].panel_name)

\* Mutant: an omitted path overwrites the setting with the empty string.
set_path_always(m, self, path, file_regex, line_regex) ==
    LET m1 == settings_set(m, m.objs[self].view, "result_base_dir",
                           IF path # None THEN path[1] ELSE "")
    IN set_regex(m1, self, file_regex, line_regex)

\* def set_path(self, path=None, file_regex=None, line_regex=None)
set_path(m, self, path, file_regex, line_regex) ==
    LET m1 == IF path # None
              THEN settings_set(m, m.objs[self].view, "result_base_dir", path[1])
              ELSE m
    IN set_regex(m1, self, file_regex, line_regex)

\* Mutant: the panel is fetched from the first window, not the one given.
init_first_window(m, self, window, panel_name, file_regex, line_regex, path) ==
    LET m1 == get_output_panel(m, "w1", panel_name)
        m2 == [m1 EXCEPT !.objs[self] =
                  [constructed |-> TRUE, window |-> window,
                   panel_name |-> panel_name,
                   view |-> ViewOf("w1", panel_name),
                   file_regex |-> None, line_regex |-> None]]
    IN set_path(m2, self, path, file_regex, line_regex)

\* def __init__(self, window, panel_name, file_regex=None, line_regex=None, path=None)
__init__(m, self, window, panel_name, file_regex, line_regex, path) ==
    LET m1 == get_output_panel(m, window, panel_name)
        m2 == [m1 EXCEPT !.objs[self] =
                  [constructed |-> TRUE, window |-> window,
                   panel_name |-> panel_name,
                   view |-> ViewOf(window, panel_name),
                   file_regex |-> None, line_regex |-> None]]
    IN set_path(m2, self, path, file_regex, line_regex)

\* def write(self, text)
write(m, self, text) == append(m, m.objs[self].view, text)

\* Mutant: no newline is added.
write_line_no_newline(m, self, text) == append(m, m.objs[self].view, text)

\* def write_line(self, text)
write_line(m, self, text) == write(m, self, text \o "\n")

\* Mutant: the buffer is left as it is.
clear_keeps_text(m, self) ==
    [m EXCEPT !.calls = Append(@, <<"clear", m.objs[self].view[1], m.objs[self].view[2]>>)]

\* def clear(self)
clear(m, self) == clear_view(m, m.objs[self].view)

\* Mutant: the panel is named without the "output." prefix.
show_bare_name(m, self) ==
    run_command(m, m.objs[self].window, "show_panel", m.objs[self].panel_name)

\* def show(self)
show(m, self) ==
    run_command(m, m.objs[self].window, "show_panel",
                "output." \o m.objs[self].panel_name)

\* def hide(self)
hide(m, self) ==
    run_command(m, m.objs[self].window, "hide_panel",
                "output." \o m.objs[self].panel_name)

----------------------------------------------------------------------------
(* The state machine: one action per call of a method by the plugin. *)

Machine == [objs |-> objs, panels |-> panels, calls |-> <<>>]

Commit(m) ==
    /\ objs' = m.objs
    /\ panels' = m.panels
    /\ calls' = m.calls

\* The last non-None value passed for each argument.
Remember(self, path, file_regex, line_regex) ==
    given' = [given EXCEPT ![self] =
                 [path       |-> IF path # None THEN path ELSE @.path,
                  file_regex |-> IF file_regex # None THEN file_regex
                                 ELSE @.file_regex,
                  line_regex |-> IF line_regex # None THEN line_regex
                                 ELSE @.line_regex]]

NoArgs == [path |-> None, file_regex |-> None, line_regex |-> None, text |-> ""]

Called(op, self, args) == last' = [op |-> op, self |-> self, args |-> args]

\* The (window, panel_name) pair an instance was constructed with.
PanelKey(self) == <<objs[self].window, objs[self].panel_name>>

RECURSIVE SumLen(_, _)
SumLen(f, S) ==
    IF S = {} THEN 0
    ELSE LET v == CHOOSE u \in S : TRUE IN Len(f[v]) + SumLen(f, S \ {v})

Recorded == SumLen(hist, ViewIds)

Construct(self, window, panel_name, file_regex, line_regex, path) ==
    /\ ~objs[self].constructed
    /\ Commit(__init__(Machine, self, window, panel_name, file_regex, line_regex, path))
    /\ Remember(self, path, file_regex, line_regex)
    /\ Called("__init__", self,
              [NoArgs EXCEPT !.path = path, !.file_regex = file_regex,
                             !.line_regex = line_regex])
    /\ UNCHANGED <<base, hist, cleared, hostClears, scope>>

SetPath(self, path, file_regex, line_regex) ==
    /\ objs[self].constructed
    /\ Commit(set_path(Machine, self, path, file_regex, line_regex))
    /\ Remember(self, path, file_regex, line_regex)
    /\ Called("set_path", self,
              [NoArgs EXCEPT !.path = path, !.file_regex = file_regex,
                             !.line_regex = line_regex])
    /\ UNCHANGED <<base, hist, cleared, hostClears, scope>>

SetRegex(self, file_regex, line_regex) ==
    /\ objs[self].constructed
    /\ Commit(set_regex(Machine, self, file_regex, line_regex))
    /\ Remember(self, None, file_regex, line_regex)
    /\ Called("set_regex", self,
              [NoArgs EXCEPT !.file_regex = file_regex, !.line_regex = line_regex])
    /\ UNCHANGED <<base, hist, cleared, hostClears, scope>>

Show(self) ==
    /\ objs[self].constructed
    /\ Commit(show(Machine, self))
    /\ Called("show", self, NoArgs)
    /\ UNCHANGED <<given, base, hist, cleared, hostClears, scope>>

Hide(self) ==
    /\ objs[self].constructed
    /\ Commit(hide(Machine, self))
    /\ Called("hide", self, NoArgs)
    /\ UNCHANGED <<given, base, hist, cleared, hostClears, scope>>

Write(self, text) ==
    /\ objs[self].constructed
    /\ Recorded < MaxWrites
    /\ Commit(write(Machine, self, text))
    /\ hist' = [hist EXCEPT ![PanelKey(self)] = Append(@, <<"write", text>>)]
    /\ Called("write", self, [NoArgs EXCEPT !.text = text])
    /\ UNCHANGED <<given, base, cleared, hostClears, scope>>

WriteLine(self, text) ==
    /\ objs[self].constructed
    /\ Recorded < MaxWrites
    /\ Commit(write_line(Machine, self, text))
    /\ hist' = [hist EXCEPT ![PanelKey(self)] = Append(@, <<"write_line", text>>)]
    /\ Called("write_line", self, [NoArgs EXCEPT !.text = text])
    /\ UNCHANGED <<given, base, cleared, hostClears, scope>>

Clear(self) ==
    /\ objs[self].constructed
    /\ Commit(clear(Machine, self))
    /\ cleared' = [cleared EXCEPT ![PanelKey(self)] =
                       IF panels[PanelKey(self)].buffer = "" THEN "empty" ELSE "text"]
    /\ hist' = [hist EXCEPT ![PanelKey(self)] = <<>>]
    /\ Called("clear", self, NoArgs)
    /\ UNCHANGED <<given, base, hostClears, scope>>

NoGiven == [path |-> None, file_regex |-> None, line_regex |-> None]

\* No instance exists yet.
Fresh ==
    /\ objs = [o \in Instances |-> NoInstance]
    /\ calls = <<>>
    /\ last = [op |-> "", self |-> "", args |-> NoArgs]
    /\ given = [o \in Instances |-> NoGiven]
    /\ hist = [v \in ViewIds |-> <<>>]
    /\ cleared = [v \in ViewIds |-> "never"]
    /\ scope = ScopeStart

\* No window has an output panel; the host keeps a panel's settings when the
\* panel is fetched again.
Init ==
    /\ Fresh
    /\ panels = [v \in ViewIds |-> NoPanel]
    /\ base = [v \in ViewIds |-> ""]
    /\ hostClears = FALSE

\* The same, on a host that clears a panel's settings at every fetch.
InitClearing ==
    /\ Fresh
    /\ panels = [v \in ViewIds |-> NoPanel]
    /\ base = [v \in ViewIds |-> ""]
    /\ hostClears = TRUE

\* The panel "exec" of window "w1" exists already (an earlier run created
\* it), with some content.
InitBuffer ==
    /\ Fresh
    /\ \E v \in {<<"w1", "exec">>}, c \in InitialContents :
          /\ base = [u \in ViewIds |-> IF u = v THEN c ELSE ""]
          /\ panels = [u \in ViewIds |->
                          IF u = v THEN [NoPanel EXCEPT !.exists = TRUE, !.buffer = c]
                          ELSE NoPanel]
    /\ hostClears = FALSE

\* The settings side: construction, set_path, set_regex, show, hide.
Next ==
    \/ \E self \in Instances, window \in SettingsWindows, panel_name \in PanelNames,
          file_regex \in Opt(RegexValues), line_regex \in Opt(RegexValues),
          path \in Opt(PathValues) :
          Construct(self, window, panel_name, file_regex, line_regex, path)
    \/ \E self \in Instances, path \in Opt(PathValues),
          file_regex \in Opt(RegexValues), line_regex \in Opt(RegexValues) :
          SetPath(self, path, file_regex, line_regex)
    \/ \E self \in Instances,
          file_regex \in Opt(RegexValues), line_regex \in Opt(RegexValues) :
          SetRegex(self, file_regex, line_regex)
    \/ \E self \in Instances : Show(self)
    \/ \E self \in Instances : Hide(self)

\* The buffer side: construction without settings, write, write_line, clear.
NextBuffer ==
    \/ \E self \in Instances, window \in Windows, panel_name \in PanelNames :
          Construct(self, window, panel_name, None, None, None)
    \/ \E self \in Instances, text \in Texts : Write(self, text)
    \/ \E self \in Instances, text \in Texts : WriteLine(self, text)
    \/ \E self \in Instances : Clear(self)

Spec == Init /\ [][Next]_vars

SpecClearing == InitClearing /\ [][Next]_vars

SpecBuffer == InitBuffer /\ [][NextBuffer]_vars

\* The scope table is read line by line.
NextScope == ReadLine

SpecScope == Init /\ [][NextScope]_vars

----------------------------------------------------------------------------
(* Reading the record of the last operation *)

SetterOps == {"__init__", "set_path", "set_regex"}

\* The settings().set calls of the last operation on one key, in order.
SettingWrites(cs, key) ==
    SelectSeq(cs, LAMBDA c : Len(c) = 5 /\ c[1] = "settings.set" /\ c[4] = key)

\* The get_output_panel calls of the last operation.
Fetches(cs) == SelectSeq(cs, LAMBDA c : c[1] = "get_output_panel")

\* The call that writes value to key on the panel of an instance.
TheWrite(o, key, value) == <<"settings.set", o.window, o.panel_name, key, value>>

TheFetch(o) == <<"get_output_panel", o.window, o.panel_name>>

----------------------------------------------------------------------------
(* C1: after every constructor, set_path or set_regex call, the call has    *)
(* written to result_file_regex the last non-None file_regex passed so far  *)
(* to the instance, and to result_line_regex the last non-None line_regex:  *)
(* a call that omits a regex supplied earlier writes the earlier value      *)
(* again.                                                                   *)
C1_LastWriteWins ==
    last.op \in SetterOps =>
        LET o == objs[last.self]
            g == given[last.self]
        IN /\ g.file_regex # None =>
                SettingWrites(calls, "result_file_regex")
                    = <<TheWrite(o, "result_file_regex", g.file_regex[1])>>
           /\ g.line_regex # None =>
                SettingWrites(calls, "result_line_regex")
                    = <<TheWrite(o, "result_line_regex", g.line_regex[1])>>

\* set_regex() with both arguments omitted re-pushes two earlier values.
C1_Witness ==
    /\ last.op = "set_regex"
    /\ last.args.file_regex = None /\ last.args.line_regex = None
    /\ given[last.self].file_regex = Some("r")
    /\ given[last.self].line_regex = Some("")
    /\ Len(SettingWrites(calls, "result_file_regex")) = 1
    /\ Len(SettingWrites(calls, "result_line_regex")) = 1

(* C2, as stated: on a host that clears a panel's settings at every fetch,  *)
(* once a regex was supplied the panel's setting holds the last supplied    *)
(* value when a constructor, set_path or set_regex call returns.            *)
C2_Original ==
    (hostClears /\ last.op \in SetterOps) =>
        LET p == panels[PanelKey(last.self)]
            g == given[last.self]
        IN /\ g.file_regex # None =>
                p.settings["result_file_regex"] = g.file_regex
           /\ g.line_regex # None =>
                p.settings["result_line_regex"] = g.line_regex

(* C2, amended: on such a host, once a regex was supplied every later call  *)
(* writes the last supplied value before its closing get_output_panel, so   *)
(* the host finds that value in the setting at that fetch; the fetch then   *)
(* clears the settings, which are unset when the call returns.              *)
C2_PickedUpAtFetch ==
    (hostClears /\ last.op \in SetterOps) =>
        LET p == panels[PanelKey(last.self)]
            g == given[last.self]
        IN /\ g.file_regex # None =>
                p.picked["result_file_regex"] = g.file_regex
           /\ g.line_regex # None =>
                p.picked["result_line_regex"] = g.line_regex
           /\ calls[Len(calls)] = TheFetch(objs[last.self])
           /\ p.settings = NoSettings

\* A later set_regex() that omits both regexes, on a clearing host.
C2_Witness ==
    /\ hostClears
    /\ last.op = "set_regex"
    /\ last.args.file_regex = None /\ last.args.line_regex = None
    /\ given[last.self].file_regex = Some("r")
    /\ panels[PanelKey(last.self)].picked["result_file_regex"] = Some("r")

(* C6: a constructor or set_path call writes result_base_dir exactly when   *)
(* its path is not None, and then the given path; every other call writes   *)
(* nothing to it and leaves the setting of every panel as it was.           *)
C6_Step ==
    \A v \in ViewIds :
        LET sets == last'.op \in {"__init__", "set_path"}
                    /\ last'.args.path # None
                    /\ objs'[last'.self].view = v
            old == panels[v].settings["result_base_dir"]
            new == panels'[v].settings["result_base_dir"]
            wr == SelectSeq(SettingWrites(calls', "result_base_dir"),
                            LAMBDA c : <<c[2], c[3]>> = v)
        IN IF sets
           THEN /\ wr = <<TheWrite(objs'[last'.self], "result_base_dir",
                                   last'.args.path[1])>>
                /\ new = last'.args.path
           ELSE /\ wr = <<>>
                /\ new = old

C7_Step ==
    last'.op \in SetterOps =>
        LET self == last'.self
            a == last'.args
            o == objs'[self]
            p == panels'[o.view]
        IN /\ a.file_regex = Some("") =>
                /\ o.file_regex = Some("")
                /\ SettingWrites(calls', "result_file_regex")
                     = <<TheWrite(o, "result_file_regex", "")>>
                /\ p.settings["result_file_regex"] = Some("")
           /\ a.line_regex = Some("") =>
                /\ o.line_regex = Some("")
                /\ SettingWrites(calls', "result_line_regex")
                     = <<TheWrite(o, "result_line_regex", "")>>
                /\ p.settings["result_line_regex"] = Some("")
           /\ (a.path = Some("") /\ last'.op # "set_regex") =>
                /\ SettingWrites(calls', "result_base_dir")
                     = <<TheWrite(o, "result_base_dir", "")>>
                /\ p.settings["result_base_dir"] = Some("")
           /\ (a.file_regex = None /\ objs[self].constructed) =>
                o.file_regex = objs[self].file_regex
           /\ (a.line_regex = None /\ objs[self].constructed) =>
                o.line_regex = objs[self].line_regex
           /\ (a.path = None /\ objs[self].constructed) =>
                p.settings["result_base_dir"]
                    = panels[o.view].settings["result_base_dir"]

\* C7: every step of the program satisfies C7_Step.
C7_ThreeWay == [][C7_Step]_vars

\* set_path("", "", None) on an instance whose line_regex is "r".
C7_Witness ==
    /\ last.op = "set_path"
    /\ last.args.path = Some("") /\ last.args.file_regex = Some("")
    /\ last.args.line_regex = None
    /\ objs[last.self].file_regex = Some("")
    /\ objs[last.self].line_regex = Some("r")
    /\ panels[PanelKey(last.self)].settings["result_base_dir"] = Some("")
    /\ panels[PanelKey(last.self)].settings["result_line_regex"] = Some("r")

(* C9: show() makes the one host call run_command("show_panel", {"panel":   *)
(* "output." + panel_name}) and hide() the same with "hide_panel"; neither  *)
(* fetches the panel, and neither changes a panel's content or settings or  *)
(* an instance's attributes.                                                *)
C9_Step ==
    last'.op \in {"show", "hide"} =>
        LET o == objs[last'.self]
        IN /\ calls' = << <<"run_command", o.window,
                            IF last'.op = "show" THEN "show_panel" ELSE "hide_panel",
                            "output." \o o.panel_name>> >>
           /\ panels' = panels
           /\ objs' = objs

\* C9: every step of the program satisfies C9_Step.
C9_ShowHide == [][C9_Step]_vars

\* show() on an instance that remembers a regex, whose panel has settings.
C9_Witness ==
    /\ last.op = "show"
    /\ objs[last.self].file_regex = Some("r")
    /\ panels[PanelKey(last.self)].settings["result_base_dir"] = Some("/d")
    /\ calls = << <<"run_command", "w1", "show_panel", "output.lint">> >>

(* C10, as stated: a call on an instance to which no file_regex (no         *)
(* line_regex) was passed so far does not write result_file_regex           *)
(* (result_line_regex), and fetches the panel exactly once.                 *)
C10_Original ==
    last.op \in SetterOps =>
        LET g == given[last.self]
        IN /\ g.file_regex = None => SettingWrites(calls, "result_file_regex") = <<>>
           /\ g.line_regex = None => SettingWrites(calls, "result_line_regex") = <<>>
           /\ (g.file_regex = None \/ g.line_regex = None) =>
                Fetches(calls) = <<TheFetch(objs[last.self])>>

(* C10, amended: such a call does not write the setting of a regex never    *)
(* supplied; set_path and set_regex fetch the panel exactly once, and the   *)
(* constructor exactly twice (to obtain the view, and again in set_regex).  *)
C10_NeverWritten ==
    last.op \in SetterOps =>
        LET g == given[last.self]
            f == TheFetch(objs[last.self])
        IN /\ g.file_regex = None => SettingWrites(calls, "result_file_regex") = <<>>
           /\ g.line_regex = None => SettingWrites(calls, "result_line_regex") = <<>>
           /\ (g.file_regex = None \/ g.line_regex = None) =>
                Fetches(calls) = IF last.op = "__init__" THEN <<f, f>> ELSE <<f>>

\* set_path with a line_regex on an instance that never got a file_regex.
C10_Witness ==
    /\ last.op = "set_path"
    /\ given[last.self].file_regex = None
    /\ given[last.self].line_regex = Some("r")
    /\ SettingWrites(calls, "result_file_regex") = <<>>
    /\ Len(SettingWrites(calls, "result_line_regex")) = 1
    /\ Len(Fetches(calls)) = 1

----------------------------------------------------------------------------
(* What the claims expect a panel to hold *)

\* The text a sequence of write/write_line calls adds: each write's text as
\* it is, each write_line's text followed by one newline, in call order.
RECURSIVE Flat(_)
Flat(h) ==
    IF h = <<>> THEN ""
    ELSE (IF Head(h)[1] = "write" THEN Head(h)[2] ELSE Head(h)[2] \o "\n")
         \o Flat(Tail(h))

Expected(v) ==
    IF cleared[v] = "never" THEN base[v] \o Flat(hist[v]) ELSE Flat(hist[v])

(* C3: a panel that was never cleared holds its initial content followed    *)
(* by the texts of the write and write_line calls made on it, in call       *)
(* order, a write_line's text followed by exactly one newline and a write's *)
(* text by nothing; write_line(t) does what write(t + "\n") does.           *)
C3_Concatenation ==
    /\ \A v \in ViewIds :
          cleared[v] = "never" => panels[v].buffer = base[v] \o Flat(hist[v])
    /\ \A o \in Instances, t \in Texts :
          objs[o].constructed =>
              write_line(Machine, o, t) = write(Machine, o, t \o "\n")

\* write("a") then write_line("a") on a panel that held "x".
C3_Witness ==
    \E v \in ViewIds :
        /\ cleared[v] = "never"
        /\ base[v] = "x"
        /\ hist[v] = << <<"write", "a">>, <<"write_line", "a">> >>
        /\ panels[v].buffer = "xaa\n"

(* C4: when clear() returns the panel's buffer is empty, and a cleared      *)
(* panel holds only what was written after its last clear().                *)
C4_ClearEmpties ==
    /\ last.op = "clear" => panels[PanelKey(last.self)].buffer = ""
    /\ \A v \in ViewIds :
          cleared[v] # "never" => panels[v].buffer = Flat(hist[v])

\* A write after a clear() that erased text.
C4_Witness ==
    \E v \in ViewIds :
        /\ cleared[v] = "text"
        /\ base[v] = "x"
        /\ last.op = "write_line"
        /\ hist[v] = << <<"write_line", "a">> >>
        /\ panels[v].buffer = "a\n"

(* C5: two instances have the same view exactly when they were constructed  *)
(* with the same window and the same panel_name; the panel exists, and the  *)
(* buffer behind an instance's view holds what was written through every    *)
(* instance of that window and name.                                        *)
C5_SamePanel ==
    \A o1 \in Instances, o2 \in Instances :
        (objs[o1].constructed /\ objs[o2].constructed) =>
            /\ (objs[o1].view = objs[o2].view) <=> (PanelKey(o1) = PanelKey(o2))
            /\ panels[objs[o1].view].exists
            /\ panels[objs[o1].view].buffer = Expected(PanelKey(o1))

\* Two instances of one window and name; what o1 wrote is seen through o2.
C5_Witness ==
    /\ objs["o1"].constructed /\ objs["o2"].constructed
    /\ PanelKey("o1") = PanelKey("o2")
    /\ last.op = "write" /\ last.self = "o1" /\ last.args.text = "a"
    /\ base[PanelKey("o2")] = "x"
    /\ panels[objs["o2"].view].buffer = "xa"

(* C8: read as a tree by indentation, the scope table has no two entries    *)
(* with the same dot-joined path (so no two leaves share a path and no      *)
(* node has two children with one label), and every label is made of        *)
(* lowercase tokens separated by hyphens.                                   *)
C8_ScopeTable ==
    /\ Cardinality(scope.nodes) = scope.nodeLines
    /\ Cardinality(scope.leaves) = scope.leafLines
    /\ \A label \in scope.labels : WellFormed(label)

\* The whole table was read; "begin" is a leaf under several parents.
C8_Witness ==
    /\ scope.pos = Len(DATA)
    /\ scope.nodeLines = 183 /\ scope.leafLines = 136
    /\ Join(<< <<"c","o","m","m","e","n","t">>, <<"l","i","n","e">>,
               <<"d","o","u","b","l","e","-","s","l","a","s","h">> >>)
          \in scope.leaves
    /\ Cardinality({p \in scope.leaves :
           Len(p) > 6 /\ SubSeq(p, Len(p) - 5, Len(p)) = <<".","b","e","g","i","n">>}) > 10

====
